---- MODULE Spec2Model ----
(***************************************************************************)
(* Model of the tc traffic-shaping compiler of salt-states:                *)
(*   states/_modules/shaping.py  (Counters, _tc_qdisc, _tc_class,          *)
(*                                build_tc_script, enable, disable)        *)
(*   states/_states/shaping.py   (the state function qdisc)                *)
(*                                                                         *)
(* Text is a sequence of atoms: words, numbers rendered by ToString, the   *)
(* separator SP and the line end NL.  A dict is a function from key names  *)
(* to values, so that `k in d' is k \in DOMAIN d.  A node of the tree is   *)
(* named by its path from the root qdisc: class i of a node is p \o <<i>>, *)
(* the qdisc nested under a class is p \o <<0>>.                           *)
(***************************************************************************)
EXTENDS Integers, Sequences, FiniteSets, TLC

VARIABLES qdisc, script, stream, ret, call

vars == <<qdisc, script, stream, ret, call>>

-----------------------------------------------------------------------------
(* Bounds of the model *)

MaxNodes == 4

MaxStoreNodes == 3

-----------------------------------------------------------------------------
(* Text and dict helpers *)

SP == " "
NL == "\n"

Has(d, k) == k \in DOMAIN d
Put(d, k, v) == (k :> v) @@ d
Get(d, k, default) == IF Has(d, k) THEN d[k] ELSE default
EmptyDict == << >>

Str(n) == ToString(n)

RECURSIVE lstrip(_)
lstrip(s) == IF s # << >> /\ Head(s) \in {SP, NL} THEN lstrip(Tail(s)) ELSE s

RECURSIVE rstrip(_)
rstrip(s) ==
    IF s # << >> /\ s[Len(s)] \in {SP, NL} THEN rstrip(SubSeq(s, 1, Len(s) - 1)) ELSE s

strip(s) == lstrip(rstrip(s))

-----------------------------------------------------------------------------
(* class Counters *)

Counters == <<0>>

(* overwrites the last counter instead of appending one *)
get_qdisc_id_overwrite(qdiscs, start) ==
    LET replaced == [qdiscs EXCEPT ![Len(qdiscs)] = start - 1]
    IN  [qdiscs |-> replaced, id |-> Len(replaced) - 1]

get_qdisc_id(qdiscs, start) ==
    LET appended == Append(qdiscs, start - 1)
    IN  [qdiscs |-> appended, id |-> Len(appended) - 1]

(* returns the next id without storing it *)
get_class_id_unstored(qdiscs, qdisc_id) ==
    [qdiscs |-> qdiscs, id |-> qdiscs[qdisc_id + 1] + 1]

get_class_id(qdiscs, qdisc_id) ==
    LET bumped == [qdiscs EXCEPT ![qdisc_id + 1] = @ + 1]
    IN  [qdiscs |-> bumped, id |-> bumped[qdisc_id + 1]]

-----------------------------------------------------------------------------
(* The tree walk.  A walk state st is [stream, qdiscs, err, node]: the     *)
(* chunks written so far (each with the node it was written for), the      *)
(* Counters list, the message of the exception raised ("" when none) and   *)
(* the node just visited as the walk left it.                              *)

NoNode == <<-1>>
NoError == ""
MissingType == "Missing 'type' for qdisc"
NoQdisc == "No qdisc passed"
ChmodTypeError == "coercing to Unicode: need string or buffer, bool found"

write(s, p, text) == Append(s, [by |-> p, text |-> text])

cls_start(type) == IF type = "prio" THEN 1 ELSE 100

qdisc_info(q, qdiscs) ==
    IF ~Has(q, "type")
    THEN [err |-> MissingType, qdiscs |-> qdiscs, node |-> q, info |-> << >>]
    ELSE LET a == get_qdisc_id(qdiscs, cls_start(q["type"]))
             q1 == Put(q, "_id", a.id)
             q2 == IF ~Has(q1, "options") THEN Put(q1, "options", << >>) ELSE q1
         IN  [err |-> NoError, qdiscs |-> a.qdiscs, node |-> q2,
              info |-> strip(<<"handle", SP, Str(q2["_id"]), ":", SP, q2["type"], SP>>
                             \o q2["options"])]

(* writes the comment without the empty line before it *)
tc_comment_no_gap(s, item, p) ==
    IF Has(item, "comment")
    THEN write(s, p, <<"#", SP>> \o item["comment"] \o <<NL>>)
    ELSE s

tc_comment(s, item, p) ==
    IF Has(item, "comment")
    THEN write(s, p, <<NL, "#", SP>> \o item["comment"] \o <<NL>>)
    ELSE s

(* leaves out the class part of the parent *)
qdisc_parent_no_cls(parent_qdisc, parent_cls) ==
    <<"parent", SP, Str(parent_qdisc), ":">>

qdisc_parent(parent_qdisc, parent_cls) ==
    IF parent_qdisc # 0
    THEN <<"parent", SP, Str(parent_qdisc), ":">> \o parent_cls
    ELSE <<"root">>

(* attaches every filter to the owning qdisc *)
filter_parent_own(qdisc_type, parent_qdisc) == parent_qdisc

filter_parent(qdisc_type, parent_qdisc) ==
    IF qdisc_type = "htb" THEN 1 ELSE parent_qdisc

(* writes a class creation command for every type *)
creates_class_always(qdisc_type) == TRUE

(* prio creates its classes itself *)
creates_class(qdisc_type) == qdisc_type # "prio"

filter_line(params, match) ==
    <<"tc", SP, "filter", SP, "add", SP, "dev", SP, params["iface"], SP,
      "parent", SP, Str(params["filter_parent"]), ":", SP, "u32", SP>>
    \o match
    \o <<SP, "flowid", SP, Str(params["parent_qdisc"]), ":", Str(params["id"]), NL>>

class_line(params) ==
    <<"tc", SP, "class", SP, "add", SP, "dev", SP, params["iface"], SP,
      "parent", SP, Str(params["parent_qdisc"]), ":">> \o params["parent_cls"]
    \o <<SP, "classid", SP, Str(params["parent_qdisc"]), ":", Str(params["id"]), SP,
         params["qdisc_type"], SP>>
    \o params["options"] \o <<NL>>

RECURSIVE write_filters_reversed(_, _, _, _, _)
(* writes the filters from the last to the first *)
write_filters_reversed(s, filters, params, p, i) ==
    IF i > Len(filters) THEN s
    ELSE write_filters_reversed(
             write(s, p, filter_line(params, filters[Len(filters) + 1 - i])),
             filters, params, p, i + 1)

RECURSIVE write_filters(_, _, _, _, _)
(* for match in cls.get('filters', ()): stream.write(...), from index i on *)
write_filters(s, filters, params, p, i) ==
    IF i > Len(filters) THEN s
    ELSE write_filters(write(s, p, filter_line(params, filters[i])), filters, params, p, i + 1)

RECURSIVE tc_qdisc(_, _, _, _, _, _)
RECURSIVE tc_class(_, _, _, _, _, _, _)
RECURSIVE tc_classes(_, _, _, _, _, _, _, _)

(* for cls in classes: _tc_class(...), from index i on; node is the list *)
tc_classes(st, classes, iface, qdisc_type, parent_qdisc, parent_cls, p, i) ==
    IF st.err # NoError \/ i > Len(classes)
    THEN [st EXCEPT !.node = classes]
    ELSE LET r == tc_class(st, classes[i], iface, qdisc_type, parent_qdisc, parent_cls,
                           p \o <<i>>)
         IN  tc_classes(r, [classes EXCEPT ![i] = r.node], iface, qdisc_type,
                        parent_qdisc, parent_cls, p, i + 1)

tc_qdisc(st, q, iface, parent_qdisc, parent_cls, p) ==
    LET inf == qdisc_info(q, st.qdiscs)
    IN  IF inf.err # NoError
        THEN [st EXCEPT !.err = inf.err, !.node = inf.node]
        ELSE LET q2 == inf.node
                 s1 == tc_comment(st.stream, q2, p)
                 s2 == write(s1, p,
                             <<"tc", SP, "qdisc", SP, "add", SP, "dev", SP, iface, SP>>
                             \o qdisc_parent(parent_qdisc, parent_cls)
                             \o <<SP>> \o inf.info \o <<NL>>)
                 r == tc_classes([st EXCEPT !.stream = s2, !.qdiscs = inf.qdiscs],
                                 Get(q2, "classes", << >>), iface, q2["type"], q2["_id"],
                                 << >>, p, 1)
             IN  [r EXCEPT !.node = IF Has(q2, "classes")
                                    THEN Put(q2, "classes", r.node) ELSE q2]

tc_class(st, cls, iface, qdisc_type, parent_qdisc, parent_cls, p) ==
    LET a == get_class_id(st.qdiscs, parent_qdisc)
        params == Put(cls @@ [id |-> a.id, iface |-> iface, qdisc_type |-> qdisc_type,
                              parent_qdisc |-> parent_qdisc, parent_cls |-> parent_cls,
                              options |-> << >>],
                      "filter_parent", filter_parent(qdisc_type, parent_qdisc))
        s1 == tc_comment(st.stream, cls, p)
        s2 == write_filters(s1, Get(cls, "filters", << >>), params, p, 1)
        s3 == IF creates_class(qdisc_type) THEN write(s2, p, class_line(params)) ELSE s2
        st3 == [st EXCEPT !.stream = s3, !.qdiscs = a.qdiscs]
        rq == IF Has(cls, "qdisc")
              THEN tc_qdisc(st3, cls["qdisc"], iface, parent_qdisc, <<Str(params["id"])>>,
                            p \o <<0>>)
              ELSE st3
        cls1 == IF Has(cls, "qdisc") THEN Put(cls, "qdisc", rq.node) ELSE cls
        rc == tc_classes(rq, Get(cls, "classes", << >>), iface, qdisc_type, parent_qdisc,
                         <<Str(params["id"])>>, p, 1)
    IN  IF rq.err # NoError
        THEN [rq EXCEPT !.node = cls1]
        ELSE [rc EXCEPT !.node = IF Has(cls, "classes")
                                 THEN Put(cls1, "classes", rc.node) ELSE cls1]

compile_tc(iface, q, s) ==
    LET s1 == write(s, NoNode, <<"#!/bin/bash", NL>>)
        s2 == write(s1, NoNode, <<"set", SP, "-e", NL, NL>>)
        s3 == write(s2, NoNode,
                    <<"##", SP, "AUTOGENERATED", SP, "TC", SP, "FOR", SP, iface, SP, "-",
                      SP, "DO", SP, "NOT", SP, "EDIT", SP, "##", NL>>)
        s4 == tc_comment(s3, q, << >>)
        s5 == write(s4, NoNode,
                    <<"tc", SP, "qdisc", SP, "del", SP, "dev", SP, iface, SP, "root", SP,
                      "||", SP, "true", NL>>)
    IN  tc_qdisc([stream |-> s5, qdiscs |-> Counters, err |-> NoError, node |-> q],
                 q, iface, 0, <<"None">>, << >>)

-----------------------------------------------------------------------------------------------------------------------------------------------------
(* The script file /etc/tc_shaping_<iface> and the module's functions      *)

Iface == "eth0"
ScriptName == "/etc/tc_shaping_eth0"

NoFile == [exists |-> FALSE, text |-> << >>, exec |-> FALSE]

RECURSIVE Flatten(_)
Flatten(s) == IF s = << >> THEN << >> ELSE Head(s).text \o Flatten(Tail(s))

(* file.readlines(): the text cut after every line end, and what follows   *)
(* the last line end, if anything                                           *)
readlines(text) ==
    LET ends == { i \in 1..Len(text) : text[i] = NL }
        nth(k) == CHOOSE i \in ends : Cardinality({ j \in ends : j <= i }) = k
        from(k) == IF k = 1 THEN 1 ELSE nth(k - 1) + 1
        whole == [k \in 1..Cardinality(ends) |-> SubSeq(text, from(k), nth(k))]
        last == IF ends = {} THEN 0 ELSE nth(Cardinality(ends))
    IN  IF last < Len(text) THEN Append(whole, SubSeq(text, last + 1, Len(text)))
        ELSE whole

Falsy(filename) == filename \in {"None", "False"}

(* open(name, 'w+') creates or truncates the file and keeps its mode *)
open_w(file) == [exists |-> TRUE, text |-> << >>, exec |-> file.exists /\ file.exec]

(* os.chmod(filename, 0755): a TypeError unless filename is a path *)
chmod_err(filename) == IF filename = ScriptName THEN NoError ELSE ChmodTypeError

(* The outcome of build_tc_script: the file, the stream object, the tree as *)
(* the walk left it, the exception raised and the lines returned.  A file   *)
(* stream is flushed when it is released, also when the call raises.        *)
build_tc_script(file, interface, q, filename, testing) ==
    LET name == IF Falsy(filename) THEN ScriptName ELSE filename
        opened == IF testing THEN file ELSE open_w(file)
        r == compile_tc(interface, q, << >>)
        text == Flatten(r.stream)
        written == IF testing THEN file ELSE [opened EXCEPT !.text = text]
    IN  IF q = EmptyDict
        THEN [file |-> opened, stream |-> << >>, node |-> q, err |-> NoQdisc,
              lines |-> << >>]
        ELSE IF r.err # NoError
        THEN [file |-> written, stream |-> r.stream, node |-> r.node, err |-> r.err,
              lines |-> << >>]
        ELSE IF ~testing /\ chmod_err(name) # NoError
        THEN [file |-> written, stream |-> r.stream, node |-> r.node,
              err |-> chmod_err(name), lines |-> << >>]
        ELSE [file |-> IF testing THEN file ELSE [written EXCEPT !.exec = TRUE],
              stream |-> r.stream, node |-> r.node, err |-> NoError,
              lines |-> readlines(text)]

NoRet == [err |-> NoError, none |-> TRUE, lines |-> << >>,
          changes |-> "", result |-> TRUE, comment |-> ""]

NoCall == [op |-> "", test |-> FALSE, ran |-> ""]

BuildTcScript(testing, filename) ==
    \E b \in { build_tc_script(script, Iface, qdisc, filename, testing) } :
        /\ qdisc' = b.node
        /\ script' = b.file
        /\ stream' = b.stream
        /\ ret' = [NoRet EXCEPT !.err = b.err, !.none = b.err # NoError, !.lines = b.lines]
        /\ call' = [op |-> "build_tc_script", test |-> testing, ran |-> ""]

-----------------------------------------------------------------------------
(* The input trees: every tree of at most MaxNodes nodes whose nodes are   *)
(* drawn from the profiles below.                                          *)

F1 == <<"match", SP, "ip", SP, "tos", SP, "0x10", SP, "0xff">>
F2 == <<"match", SP, "ip", SP, "dport", SP, "22", SP, "0xffff">>

QdiscProfiles ==
    { [type |-> "prio"],
      [type |-> "htb", options |-> << >>, comment |-> <<"Shaper">>],
      [type |-> "sfq", options |-> <<SP, "perturb", SP, "10", SP>>],
      EmptyDict }

ClassProfiles ==
    { EmptyDict,
      [options |-> <<"rate", SP, "1024kbit">>, comment |-> <<"Interface", SP, "limit">>,
       filters |-> <<F1, F2>>],
      [id |-> 13, filters |-> <<F1>>] }

ValidQdiscProfiles == { prof \in QdiscProfiles : Has(prof, "type") }

RECURSIVE QdiscTrees(_, _)
RECURSIVE ClassTrees(_, _)
RECURSIVE ClassLists(_, _)

(* lists of classes with n nodes in all *)
ClassLists(n, QP) ==
    IF n = 0 THEN { << >> }
    ELSE UNION { { <<c>> \o rest : c \in ClassTrees(k, QP), rest \in ClassLists(n - k, QP) }
                 : k \in 1..n }

(* qdisc trees with n nodes *)
QdiscTrees(n, QP) ==
    { IF cl = << >> THEN prof ELSE Put(prof, "classes", cl)
      : prof \in QP, cl \in ClassLists(n - 1, QP) }

(* class trees with n nodes, k of them in the nested qdisc *)
ClassTrees(n, QP) ==
    UNION { { LET c1 == IF cl = << >> THEN prof ELSE Put(prof, "classes", cl)
              IN  IF qd = << >> THEN c1 ELSE Put(c1, "qdisc", qd[1])
              : prof \in ClassProfiles,
                qd \in (IF k = 0 THEN { << >> } ELSE { <<t>> : t \in QdiscTrees(k, QP) }),
                cl \in ClassLists(n - 1 - k, QP) }
            : k \in 0..(n - 1) }

ValidTrees == UNION { QdiscTrees(n, ValidQdiscProfiles) : n \in 1..MaxNodes }

StoreTrees == UNION { QdiscTrees(n, QdiscProfiles) : n \in 1..MaxStoreNodes }

(* The two trees of the documentation of states/_states/shaping.py, and a   *)
(* tree with a qdisc under a class and another under its sub-class          *)
Sfq == [type |-> "sfq", options |-> <<"perturb", SP, "10">>]

PrioExample ==
    [type |-> "prio",
     classes |-> << [qdisc |-> [type |-> "sfq"]],
                    [qdisc |-> [type |-> "tbf",
                                options |-> <<"rate", SP, "20kbit", SP, "buffer", SP,
                                              "1600", SP, "limit", SP, "3000">>]],
                    [qdisc |-> [type |-> "sfq"]] >>]

HtbExample ==
    [type |-> "htb", default |-> 13,
     classes |-> <<
       [comment |-> <<"Interface", SP, "limit">>,
        options |-> <<"rate", SP, "1024kbit">>,
        classes |-> <<
          [comment |-> <<"Default", SP, "traffic">>, id |-> 13,
           options |-> <<"rate", SP, "768kbit", SP, "ceil", SP, "1024kbit", SP, "prio",
                         SP, "2">>,
           qdisc |-> Sfq],
          [comment |-> <<"Interactive", SP, "traffic">>, filters |-> <<F1>>,
           options |-> <<"rate", SP, "128kbit", SP, "prio", SP, "1">>,
           qdisc |-> Sfq],
          [comment |-> <<"Bulk", SP, "traffic">>, filters |-> <<F2>>,
           options |-> <<"rate", SP, "128kbit", SP, "ceil", SP, "1024kbit", SP, "prio",
                         SP, "3">>,
           qdisc |-> Sfq] >>] >>]

DeepExample ==
    [type |-> "prio", comment |-> <<"Deep">>,
     classes |-> <<
       [filters |-> <<F1>>,
        qdisc |-> [type |-> "htb",
                   classes |-> << [filters |-> <<F2, F1>>,
                                   options |-> <<"rate", SP, "128kbit">>,
                                   qdisc |-> Sfq,
                                   classes |-> << [qdisc |-> [type |-> "sfq"]] >>],
                                  EmptyDict >>],
        classes |-> << [qdisc |-> [type |-> "sfq"], filters |-> <<F2>>] >>],
       [qdisc |-> Sfq] >>]

ExampleTrees == {PrioExample, HtbExample, DeepExample}

OldFile == [exists |-> TRUE, text |-> <<"#!/bin/bash", NL, "tc", SP, "old", NL>>,
            exec |-> TRUE]

-----------------------------------------------------------------------------
(* Spec: one tree in which every qdisc has a type, compiled by             *)
(* build_tc_script                                                        *)

Init ==
    /\ qdisc \in ValidTrees \cup ExampleTrees
    /\ script = NoFile
    /\ stream = << >>
    /\ ret = NoRet
    /\ call = NoCall

Next == \E testing \in BOOLEAN : BuildTcScript(testing, "None")

Spec == Init /\ [][Next]_vars

-----------------------------------------------------------------------------
(* SpecStore: the module's functions and the state function on one         *)
(* interface, with any tree and any stored script                          *)

(* get_tc_script *)
get_tc_script(file) ==
    IF ~file.exists THEN [none |-> TRUE, lines |-> << >>]
    ELSE [none |-> FALSE, lines |-> readlines(file.text)]

(* _cmd_exec: the exception raised for the command's return code *)
cmd_exec(retcode) == IF retcode # 0 THEN "Command returned" ELSE NoError

(* enable *)
enable(file, retcode) ==
    IF ~file.exists THEN [err |-> "Script has not yet been built", ran |-> ""]
    ELSE [err |-> cmd_exec(retcode), ran |-> "enable"]

(* disable *)
disable(retcode) == [err |-> cmd_exec(retcode), ran |-> "disable"]

(* the state function qdisc(name, **qdisc), from the results old and b of    *)
(* its calls of shaping.get_tc_script and shaping.build_tc_script on       *)
state_qdisc_with(old, b, kw, test, retcode) ==
    LET created == (old.none \/ old.lines = << >>) /\ b.lines # << >>
        changed == old.lines # b.lines
        x == IF Get(kw, "enabled", TRUE) THEN enable(b.file, retcode) ELSE disable(retcode)
        ret0 == [NoRet EXCEPT !.none = FALSE,
                              !.comment = "Shaping for interface is up to date."]
        ret1 == [ret0 EXCEPT !.changes = IF created THEN "Created shaping script."
                                         ELSE "diff"]
        out == [file |-> b.file, stream |-> b.stream, node |-> b.node, ran |-> "",
                ret |-> ret0]
    IN  IF b.err # NoError THEN [out EXCEPT !.ret = [NoRet EXCEPT !.err = b.err]]
        ELSE IF ~created /\ ~changed THEN out
        ELSE IF test THEN [out EXCEPT !.ret = ret1]
        ELSE [out EXCEPT
                 !.ran = x.ran,
                 !.ret = IF x.err # NoError
                         THEN [ret1 EXCEPT !.result = FALSE, !.comment = x.err]
                         ELSE [ret1 EXCEPT !.comment =
                                   IF Get(kw, "enabled", TRUE) THEN "Shaping enabled"
                                   ELSE "Shaping disabled"]]

(* testing is passed in the place of build_tc_script's filename parameter *)
state_qdisc(file, kw, test, retcode) ==
    CHOOSE r \in { state_qdisc_with(get_tc_script(file), b, kw, test, retcode)
                   : b \in { build_tc_script(file, Iface, kw,
                                             IF test THEN "True" ELSE "False", FALSE) } }
           : TRUE

RetCodes == {0, 1}

GetTcScript ==
    LET g == get_tc_script(script)
    IN  /\ ret' = [NoRet EXCEPT !.none = g.none, !.lines = g.lines]
        /\ call' = [op |-> "get_tc_script", test |-> FALSE, ran |-> ""]
        /\ stream' = << >>
        /\ UNCHANGED <<qdisc, script>>

Enable(retcode) ==
    LET x == enable(script, retcode)
    IN  /\ ret' = [NoRet EXCEPT !.err = x.err]
        /\ call' = [op |-> "enable", test |-> FALSE, ran |-> x.ran]
        /\ stream' = << >>
        /\ UNCHANGED <<qdisc, script>>

Disable(retcode) ==
    LET x == disable(retcode)
    IN  /\ ret' = [NoRet EXCEPT !.err = x.err]
        /\ call' = [op |-> "disable", test |-> FALSE, ran |-> x.ran]
        /\ stream' = << >>
        /\ UNCHANGED <<qdisc, script>>

(* The keyword dict is a new dict holding the caller's nested nodes: what   *)
(* the walk stores on the root stays in the copy, what it stores on a       *)
(* nested qdisc is seen by the caller.                                      *)
StateQdisc(test, enabled, retcode) ==
    \E r \in { state_qdisc(script, IF enabled THEN qdisc ELSE Put(qdisc, "enabled", FALSE),
                             test, retcode) } :
        /\ qdisc' = IF Has(qdisc, "classes") THEN Put(qdisc, "classes", r.node["classes"])
                    ELSE qdisc
        /\ script' = r.file
        /\ stream' = r.stream
        /\ ret' = r.ret
        /\ call' = [op |-> "state.qdisc", test |-> test, ran |-> r.ran]

InitStore ==
    /\ qdisc \in StoreTrees
    /\ script \in {NoFile, OldFile}
    /\ stream = << >>
    /\ ret = NoRet
    /\ call = NoCall

NextStore ==
    \/ \E testing \in BOOLEAN, filename \in {"None", ScriptName} :
           BuildTcScript(testing, filename)
    \/ GetTcScript
    \/ \E retcode \in RetCodes : Enable(retcode)
    \/ \E retcode \in RetCodes : Disable(retcode)
    \/ \E test \in BOOLEAN, enabled \in BOOLEAN, retcode \in RetCodes :
           StateQdisc(test, enabled, retcode)

SpecStore == InitStore /\ [][NextStore]_vars
-----------------------------------------------------------------------------
(* Reading a tree and a stream.  None of this is code of the program: it    *)
(* says what the traversal order is and reads the emitted text back.        *)

RECURSIVE NodeAt(_, _)
NodeAt(t, p) ==
    IF p = << >> THEN t
    ELSE IF Head(p) = 0 THEN NodeAt(t["qdisc"], Tail(p))
    ELSE NodeAt(t["classes"][Head(p)], Tail(p))

RECURSIVE Concat(_)
Concat(ss) == IF ss = << >> THEN << >> ELSE Head(ss) \o Concat(Tail(ss))

Subs(t) == Get(t, "classes", << >>)

RECURSIVE PreQdiscs(_, _)
RECURSIVE PreQdiscsOfClass(_, _)

(* the qdiscs of the tree under qdisc q at path p, in pre-order: q, then    *)
(* for each of its classes in declaration order the qdiscs under that class *)
PreQdiscs(q, p) ==
    <<p>> \o Concat([i \in 1..Len(Subs(q)) |-> PreQdiscsOfClass(Subs(q)[i], p \o <<i>>)])

(* the qdiscs under class c: those of its nested qdisc, then those under    *)
(* its sub-classes in declaration order                                     *)
PreQdiscsOfClass(c, p) ==
    (IF Has(c, "qdisc") THEN PreQdiscs(c["qdisc"], p \o <<0>>) ELSE << >>)
    \o Concat([i \in 1..Len(Subs(c)) |-> PreQdiscsOfClass(Subs(c)[i], p \o <<i>>)])

RECURSIVE PreClasses(_, _)
(* class c at path p and its sub-classes at any depth, in pre-order *)
PreClasses(c, p) ==
    <<p>> \o Concat([i \in 1..Len(Subs(c)) |-> PreClasses(Subs(c)[i], p \o <<i>>)])

(* the classes that qdisc q at path p owns, in traversal order *)
OwnedClasses(q, p) ==
    Concat([i \in 1..Len(Subs(q)) |-> PreClasses(Subs(q)[i], p \o <<i>>)])

QdiscPaths == PreQdiscs(qdisc, << >>)

Range(f) == { f[i] : i \in DOMAIN f }

IsPrefix(p, r) == Len(p) <= Len(r) /\ SubSeq(r, 1, Len(p)) = p

Front(p) == SubSeq(p, 1, Len(p) - 1)

IsClassPath(p) == p # << >> /\ p[Len(p)] # 0

(* a successful build_tc_script call has just returned *)
Compiled == call.op = "build_tc_script" /\ ret.err = NoError

(* the chunks of the stream written for node p, in stream order *)
ChunkIdx(p) == { i \in 1..Len(stream) : stream[i].by = p }
TreeIdx(p) == { i \in 1..Len(stream) : stream[i].by # NoNode /\ IsPrefix(p, stream[i].by) }

IsCommand(t, what) == Len(t) >= 5 /\ t[1] = "tc" /\ t[3] = what /\ t[5] = "add"
IsCommentText(t) == Len(t) >= 3 /\ t[1] = NL /\ t[2] = "#"

Cmds(p, what) == { i \in ChunkIdx(p) : IsCommand(stream[i].text, what) }

(* the word that follows keyword w in command t, e.g. <<"1", ":", "100">> *)
Arg(t, w) ==
    LET i == CHOOSE k \in 1..Len(t) : t[k] = w /\ \A j \in 1..(k - 1) : t[j] # w
        e == CHOOSE k \in (i + 2)..Len(t) :
                 t[k] \in {SP, NL} /\ \A j \in (i + 2)..(k - 1) : t[j] \notin {SP, NL}
    IN  SubSeq(t, i + 2, e - 1)

Handle(p) == NodeAt(qdisc, p)["_id"]

(* position of x in the sequence s *)
Rank(s, x) == CHOOSE k \in 1..Len(s) : s[k] = x
RECURSIVE Owner(_)
(* the qdisc that owns the class at path p *)
Owner(p) == IF IsClassPath(p) THEN Owner(Front(p)) ELSE p

Owned(o) == OwnedClasses(NodeAt(qdisc, o), o)

ClassPaths == UNION { Range(Owned(o)) : o \in Range(QdiscPaths) }

(* the id the commands of the class at path p are expected to carry: its    *)
(* own id field when it has one, else the base of the owning qdisc plus the *)
(* number of classes of that qdisc visited before it                        *)
UsedId(p) ==
    LET c == NodeAt(qdisc, p)
        o == Owner(p)
        base == IF NodeAt(qdisc, o)["type"] = "prio" THEN 1 ELSE 100
    IN  IF Has(c, "id") THEN c["id"] ELSE base + Rank(Owned(o), p) - 1

ClassRef(p) == <<Str(Handle(Owner(p))), ":", Str(UsedId(p))>>

-----------------------------------------------------------------------------
(* C1: after a successful build_tc_script, the k-th qdisc of the tree in    *)
(* pre-order has handle k, stored on the node and written in its one qdisc  *)
(* add command; so handles are 1, 2, 3, ... and no two qdiscs share one.    *)
C1_HandlesInPreorder ==
    Compiled =>
        \A k \in 1..Len(QdiscPaths) :
            /\ Handle(QdiscPaths[k]) = k
            /\ Cardinality(Cmds(QdiscPaths[k], "qdisc")) = 1
            /\ \A i \in Cmds(QdiscPaths[k], "qdisc") :
                   Arg(stream[i].text, "handle") = <<Str(k), ":">>

(* a class carries a qdisc and has a sub-class that carries one too, and a  *)
(* later sibling class carries a third                                      *)
C1_Witness ==
    /\ Compiled
    /\ \E c \in ClassPaths :
           /\ Has(NodeAt(qdisc, c), "qdisc")
           /\ \E j \in 1..Len(Subs(NodeAt(qdisc, c))) :
                  /\ Has(NodeAt(qdisc, c \o <<j>>), "qdisc")
                  /\ Handle(c \o <<j, 0>>) > Handle(c \o <<0>>) + 1
           /\ \E d \in ClassPaths :
                  /\ Front(d) = Front(c) /\ d[Len(d)] > c[Len(c)]
                  /\ Has(NodeAt(qdisc, d), "qdisc")
                  /\ Handle(d \o <<0>>) = Len(QdiscPaths)

-----------------------------------------------------------------------------
(* C2 as amended: for every qdisc, the commands of the k-th class it owns   *)
(* in traversal order (direct classes and sub-classes) carry class id       *)
(* base + k - 1, base being 1 for prio and 100 otherwise, unless the class  *)
(* has an id field of its own, which its commands then carry instead.       *)
C2_ClassIdsByRank ==
    Compiled =>
        \A p \in ClassPaths :
            /\ \A i \in Cmds(p, "filter") : Arg(stream[i].text, "flowid") = ClassRef(p)
            /\ \A i \in Cmds(p, "class") : Arg(stream[i].text, "classid") = ClassRef(p)
            /\ \A i \in Cmds(p \o <<0>>, "qdisc") :
                   Arg(stream[i].text, "parent") = ClassRef(p)

(* a qdisc owns a class with an id of its own and, after it, a class        *)
(* without one whose creation command is emitted                            *)
C2_Witness ==
    /\ Compiled
    /\ \E o \in Range(QdiscPaths) :
           \E k1, k2 \in 1..Len(Owned(o)) :
               /\ k1 < k2
               /\ Has(NodeAt(qdisc, Owned(o)[k1]), "id")
               /\ ~Has(NodeAt(qdisc, Owned(o)[k2]), "id")
               /\ Cmds(Owned(o)[k2], "class") # {}

Num(tok) == CHOOSE n \in 0..200 : Str(n) = tok

(* the class ids in the commands of the class at path p *)
IdsInCommands(p) ==
    { Num(Arg(stream[i].text, "flowid")[3]) : i \in Cmds(p, "filter") }
    \cup { Num(Arg(stream[i].text, "classid")[3]) : i \in Cmds(p, "class") }
    \cup { Num(Arg(stream[i].text, "parent")[3]) : i \in Cmds(p \o <<0>>, "qdisc") }

(* C2 as stated: the class ids in the commands of the classes a qdisc owns  *)
(* are strictly increasing in traversal order, the first being 1 for prio   *)
(* and 100 otherwise.                                                       *)
C2_Original ==
    Compiled =>
        \A o \in Range(QdiscPaths) :
            /\ \A k1, k2 \in 1..Len(Owned(o)) :
                   k1 < k2 => \A a \in IdsInCommands(Owned(o)[k1]),
                                 b \in IdsInCommands(Owned(o)[k2]) : a < b
            /\ Owned(o) # << >> =>
                   \A a \in IdsInCommands(Owned(o)[1]) :
                       a = IF NodeAt(qdisc, o)["type"] = "prio" THEN 1 ELSE 100
-----------------------------------------------------------------------------
(* C3: the root qdisc's add command is anchored at root; the add command of *)
(* a qdisc nested under a class has parent H:C, H the handle of the qdisc   *)
(* owning that class and C the id of that class; a class creation command   *)
(* has classid H:<its id> and parent H:<id of its parent class>, or H: when *)
(* the class is a direct child of the qdisc.                                *)
C3_ParentAddressing ==
    Compiled =>
        /\ \A o \in Range(QdiscPaths) :
               \A i \in Cmds(o, "qdisc") :
                   IF o = << >>
                   THEN /\ stream[i].text[11] = "root"
                        /\ "parent" \notin Range(stream[i].text)
                   ELSE Arg(stream[i].text, "parent") = ClassRef(Front(o))
        /\ \A p \in ClassPaths :
               \A i \in Cmds(p, "class") :
                   /\ Arg(stream[i].text, "classid") = ClassRef(p)
                   /\ Arg(stream[i].text, "parent") =
                          IF IsClassPath(Front(p)) THEN ClassRef(Front(p))
                          ELSE <<Str(Handle(Owner(p))), ":">>

(* a created sub-class of a created class carries a nested qdisc, under a   *)
(* qdisc that is not the root                                               *)
C3_Witness ==
    /\ Compiled
    /\ \E p \in ClassPaths :
           /\ IsClassPath(Front(p))
           /\ Owner(p) # << >>
           /\ Cmds(p, "class") # {}
           /\ Cmds(Front(p), "class") # {}
           /\ Cmds(p \o <<0>>, "qdisc") # {}

-----------------------------------------------------------------------------
(* C4: for a prio qdisc no class creation command is emitted for the        *)
(* classes it owns, while each of their filters yields a filter command,    *)
(* each of their nested qdiscs a qdisc add command and, when that qdisc is  *)
(* not a prio one, each class it owns a class creation command.             *)
C4_PrioCreatesNoClass ==
    Compiled =>
        \A o \in Range(QdiscPaths) :
            NodeAt(qdisc, o)["type"] = "prio" =>
                \A p \in Range(Owned(o)) :
                    /\ Cmds(p, "class") = {}
                    /\ Cardinality(Cmds(p, "filter")) =
                           Len(Get(NodeAt(qdisc, p), "filters", << >>))
                    /\ Has(NodeAt(qdisc, p), "qdisc") =>
                           /\ Cardinality(Cmds(p \o <<0>>, "qdisc")) = 1
                           /\ NodeAt(qdisc, p \o <<0>>)["type"] # "prio" =>
                                  \A d \in Range(Owned(p \o <<0>>)) :
                                      Cardinality(Cmds(d, "class")) = 1

(* a direct class of a prio qdisc has a filter, a nested qdisc and a        *)
(* sub-class with a filter                                                  *)
C4_Witness ==
    /\ Compiled
    /\ \E o \in Range(QdiscPaths) :
           /\ NodeAt(qdisc, o)["type"] = "prio"
           /\ \E i \in 1..Len(Subs(NodeAt(qdisc, o))) :
                  LET c == NodeAt(qdisc, o \o <<i>>)
                  IN  /\ Get(c, "filters", << >>) # << >>
                      /\ Has(c, "qdisc")
                      /\ Cmds(o \o <<i, 0>>, "qdisc") # {}
                      /\ Subs(c) # << >>
                      /\ Cmds(o \o <<i, 1>>, "filter") # {}

-----------------------------------------------------------------------------
(* C5 as amended: every filter command of a class owned by an htb qdisc     *)
(* attaches to parent handle 1, whatever the handle of that qdisc is (1 for *)
(* the root qdisc, so that only a nested htb qdisc never has a filter       *)
(* attached to its own handle); for every other type the filter's parent is *)
(* the owning qdisc's handle; the flowid is <owning handle>:<class id>.     *)
C5_FilterParent ==
    Compiled =>
        \A p \in ClassPaths :
            \A i \in Cmds(p, "filter") :
                /\ Arg(stream[i].text, "parent") =
                       IF NodeAt(qdisc, Owner(p))["type"] = "htb" THEN <<"1", ":">>
                       ELSE <<Str(Handle(Owner(p))), ":">>
                /\ Arg(stream[i].text, "flowid") = ClassRef(p)
                /\ (NodeAt(qdisc, Owner(p))["type"] = "htb" /\ Owner(p) # << >>) =>
                       Arg(stream[i].text, "parent") # <<Str(Handle(Owner(p))), ":">>

(* an htb qdisc nested under a class, its handle above 1, owns a class with *)
(* a filter                                                                 *)
C5_Witness ==
    /\ Compiled
    /\ \E p \in ClassPaths :
           /\ NodeAt(qdisc, Owner(p))["type"] = "htb"
           /\ Handle(Owner(p)) > 1
           /\ Cmds(p, "filter") # {}

(* C5 as stated: a filter command of a class owned by an htb qdisc attaches *)
(* to parent handle 1 and never to the qdisc's own handle.                  *)
C5_Original ==
    Compiled =>
        \A p \in ClassPaths :
            NodeAt(qdisc, Owner(p))["type"] = "htb" =>
                \A i \in Cmds(p, "filter") :
                    /\ Arg(stream[i].text, "parent") = <<"1", ":">>
                    /\ Arg(stream[i].text, "parent") # <<Str(Handle(Owner(p))), ":">>
-----------------------------------------------------------------------------
RECURSIVE RemoveComment(_, _)
(* the tree t with the comment field of the node at path p removed *)
RemoveComment(t, p) ==
    IF p = << >> THEN [k \in (DOMAIN t) \ {"comment"} |-> t[k]]
    ELSE IF Head(p) = 0 THEN Put(t, "qdisc", RemoveComment(t["qdisc"], Tail(p)))
    ELSE Put(t, "classes",
             [t["classes"] EXCEPT ![Head(p)] = RemoveComment(@, Tail(p))])

Output(t) == build_tc_script(NoFile, Iface, t, "None", TRUE).lines

Commented == { p \in Range(QdiscPaths) \cup ClassPaths : Has(NodeAt(qdisc, p), "comment") }

CommentLine(p) == <<"#", SP>> \o NodeAt(qdisc, p)["comment"] \o <<NL>>

RECURSIVE WithoutCommentsOf(_, _)
(* the chunks of s but for the comments written for node p *)
WithoutCommentsOf(s, p) ==
    IF s = << >> THEN << >>
    ELSE IF Head(s).by = p /\ IsCommentText(Head(s).text)
         THEN WithoutCommentsOf(Tail(s), p)
         ELSE <<Head(s)>> \o WithoutCommentsOf(Tail(s), p)

DropAt(s, i) == SubSeq(s, 1, i - 1) \o SubSeq(s, i + 1, Len(s))

(* C6 as amended: compiling the tree with the comment field of a node       *)
(* removed gives the same output minus what is written for that comment: an *)
(* empty line followed by the comment line, once for a class or a nested    *)
(* qdisc and twice for the root qdisc (before the reset command and before  *)
(* the root's add command); every other line is unchanged, in the same      *)
(* order.                                                                   *)
C6_CommentRemoval ==
    Compiled =>
        \A p \in Commented :
            LET kept == WithoutCommentsOf(stream, p)
                out == Output(RemoveComment(qdisc, p))
                n == IF p = << >> THEN 2 ELSE 1
            IN  /\ Len(stream) - Len(kept) = n
                /\ \A i \in ChunkIdx(p) :
                       IsCommentText(stream[i].text) =>
                           readlines(stream[i].text) = << <<NL>>, CommentLine(p) >>
                /\ out = readlines(Flatten(kept))
                /\ Len(ret.lines) - Len(out) = 2 * n

(* the root qdisc and one of its classes carry a comment *)
C6_Witness ==
    /\ Compiled
    /\ << >> \in Commented
    /\ \E p \in Commented : IsClassPath(p)

(* C6 as stated: compiling the tree with the comment field of a node        *)
(* removed gives the same output minus exactly one line, the comment line   *)
(* of that node.                                                            *)
C6_Original ==
    Compiled =>
        \A p \in Commented :
            \E i \in 1..Len(ret.lines) :
                /\ ret.lines[i] = CommentLine(p)
                /\ Output(RemoveComment(qdisc, p)) = DropAt(ret.lines, i)

-----------------------------------------------------------------------------
AllBefore(A, B) == \A i \in A, j \in B : i < j

(* the filter commands of the class at path p, in stream order *)
FilterCmdSeq(p) ==
    LET F == Cmds(p, "filter")
    IN  [k \in 1..Cardinality(F) |->
            stream[CHOOSE i \in F : Cardinality({ j \in F : j <= i }) = k].text]

(* the match of filter command t: what stands between "u32 " and " flowid" *)
Match(t) == SubSeq(t, 18, Len(t) - 7)

(* C9: in the stream a qdisc's add command precedes everything written for  *)
(* its classes; the filter commands of a class come in declaration order    *)
(* and precede its creation command, which precedes what is written for its *)
(* nested qdisc, which precedes what is written for its sub-classes; what   *)
(* is written for a class and its descendants precedes what is written for  *)
(* its next sibling.                                                        *)
C9_EmissionOrder ==
    Compiled =>
        /\ \A o \in Range(QdiscPaths) :
               \A i \in 1..Len(Subs(NodeAt(qdisc, o))) :
                   AllBefore(Cmds(o, "qdisc"), TreeIdx(o \o <<i>>))
        /\ \A p \in ClassPaths :
               LET c == NodeAt(qdisc, p)
                   fs == Get(c, "filters", << >>)
               IN  /\ Len(FilterCmdSeq(p)) = Len(fs)
                   /\ \A k \in 1..Len(fs) : Match(FilterCmdSeq(p)[k]) = fs[k]
                   /\ AllBefore(Cmds(p, "filter"), Cmds(p, "class"))
                   /\ AllBefore(Cmds(p, "class"), TreeIdx(p \o <<0>>))
                   /\ AllBefore(Cmds(p, "filter"), TreeIdx(p \o <<0>>))
                   /\ \A j \in 1..Len(Subs(c)) :
                          /\ AllBefore(TreeIdx(p \o <<0>>), TreeIdx(p \o <<j>>))
                          /\ AllBefore(ChunkIdx(p), TreeIdx(p \o <<j>>))
        /\ \A p \in Range(QdiscPaths) \cup ClassPaths :
               \A i, j \in 1..Len(Subs(NodeAt(qdisc, p))) :
                   i < j => AllBefore(TreeIdx(p \o <<i>>), TreeIdx(p \o <<j>>))

(* a created class has two filters, a nested qdisc, a sub-class and a later *)
(* sibling                                                                  *)
C9_Witness ==
    /\ Compiled
    /\ \E p \in ClassPaths :
           /\ Len(Get(NodeAt(qdisc, p), "filters", << >>)) >= 2
           /\ NodeAt(qdisc, p)["filters"][1] # NodeAt(qdisc, p)["filters"][2]
           /\ Cmds(p, "class") # {}
           /\ TreeIdx(p \o <<0>>) # {}
           /\ TreeIdx(p \o <<1>>) # {}
           /\ TreeIdx(Front(p) \o <<p[Len(p)] + 1>>) # {}

-----------------------------------------------------------------------------
(* C10 as stated: no command line of the returned script has a separator    *)
(* before its line end.                                                     *)
C10_NoTrailingSeparator ==
    Compiled =>
        \A i \in 1..Len(ret.lines) :
            LET l == ret.lines[i]
            IN  (Len(l) >= 2 /\ l[1] = "tc") => l[Len(l) - 1] # SP
-----------------------------------------------------------------------------
(* some qdisc of tree t, the root or a nested one, has no type *)
HasUntypedQdisc(t) ==
    \E o \in Range(PreQdiscs(t, << >>)) : ~Has(NodeAt(t, o), "type")

(* C7 as stated: a build_tc_script call on a tree in which some qdisc has   *)
(* no type raises the malformed-tree error ("No qdisc passed" for an empty  *)
(* root, the missing-type error otherwise) and produces no output text: it  *)
(* returns no line and writes no text, so that the stored script holds the  *)
(* text it held before the call or none.                                    *)
C7_NoOutputOnMissingType ==
    [][ (call'.op = "build_tc_script" /\ HasUntypedQdisc(qdisc)) =>
            /\ ret'.err = IF qdisc = EmptyDict THEN NoQdisc ELSE MissingType
            /\ ret'.lines = << >>
            /\ script'.text \in {script.text, << >>} ]_vars

(* C8 as stated: a run of the state function in dry-run mode leaves the     *)
(* stored script as it was and executes neither enable nor disable.         *)
C8_DryRunFrame ==
    [][ (call'.op = "state.qdisc" /\ call'.test) =>
            (script' = script /\ call'.ran = "") ]_vars
====
